---- MODULE Spec2Model ----
(***************************************************************************)
(* The extraction engine of pai_tsfresh:                                   *)
(*   _do_extraction           (feature_extraction/extraction_gist.py)      *)
(*   _do_extraction_on_chunk  (feature_extraction/extraction_gist.py)      *)
(* One run of _do_extraction is a state machine: chunk formation over the  *)
(* grouped data frame, the choice and validation of the distributor,       *)
(* map_reduce over the chunks (sequential or pooled), close(), and the     *)
(* pivot of the feature records into the result table.                     *)
(***************************************************************************)
EXTENDS Integers, Sequences, FiniteSets, TLC

VARIABLES
    df,                     \* the normalized data frame: rows of (id, kind, value)
    pc,                     \* the position of _do_extraction
    keys_left,              \* grouped.groups.keys() not yet enumerated
    group,                  \* the local variable `group` of the key loop
    get_group_failed,       \* keys whose grouped.get_group raised
    keys_failed,            \* whether enumerating the keys raised
    data_in_chunks,         \* the chunk list
    distributor,            \* the distributor object of this run
    default_fc_parameters,  \* the default catalog
    kind_to_fc_parameters,  \* the per-kind override catalogs
    batches,                \* map_reduce: the chunk list split into batches
    completed,              \* map_reduce: the batches whose results have arrived
    records,                \* map_reduce: the feature records gathered so far
    calls,                  \* calculator invocations made so far
    map_reduce_calls,       \* calls of distributor.map_reduce
    close_calls,            \* calls of distributor.close
    result,                 \* the returned table
    error                   \* the exception that ended the run, or "none"

vars == <<df, pc, keys_left, group, get_group_failed, keys_failed, data_in_chunks,
          distributor, default_fc_parameters, kind_to_fc_parameters, batches,
          completed, records, calls, map_reduce_calls, close_calls, result, error>>

----------------------------------------------------------------------------
(* Bounds of the model *)

\* rows of the data frame
MaxRows == 2
\* the largest chunk_size argument
MaxChunkSize == 2
\* the largest n_jobs argument
MaxJobs == 2

----------------------------------------------------------------------------
(* Python values.  A value carries its type, so that 1 and "1" differ and  *)
(* str() is not the identity.                                              *)

PyInt(s) == [t |-> "int", s |-> s]
PyStr(s) == [t |-> "str", s |-> s]

\* str(v)
Str(v) == PyStr(v.s)

\* index.astype(dtype) on one label
AsType(v, dtype) == [t |-> dtype, s |-> v.s]

\* the id column holds integers
Ids == {PyInt("1"), PyInt("2")}
IdDtype == "int"

\* the kind column holds column names or dictionary keys: strings or integers
Kinds == {PyStr("x"), PyInt("1")}

Values == {0, 1}

Rows == [id : Ids, kind : Kinds, value : Values]

RECURSIVE SeqsUpTo(_, _)
SeqsUpTo(S, n) ==
    IF n = 0 THEN {<<>>}
    ELSE LET shorter == SeqsUpTo(S, n - 1)
         IN  shorter \cup {Append(s, x) : s \in {q \in shorter : Len(q) = n - 1}, x \in S}

DataFrames == SeqsUpTo(Rows, MaxRows)

----------------------------------------------------------------------------
(* Chunk formation *)

Key(row) == [id |-> row.id, kind |-> row.kind]

\* grouped.groups.keys(): the distinct (id, kind) pairs of the frame
GroupKeys(frame) == {Key(frame[i]) : i \in DOMAIN frame}

\* the order of the group keys: groupby sorts them, by id and then by kind,
\* integers before strings
IdOrder == <<PyInt("1"), PyInt("2")>>
KindOrder == <<PyInt("1"), PyStr("x")>>
Rank(order, v) == CHOOSE i \in DOMAIN order : order[i] = v
KeyBefore(a, b) ==
    \/ Rank(IdOrder, a.id) < Rank(IdOrder, b.id)
    \/ a.id = b.id /\ Rank(KindOrder, a.kind) < Rank(KindOrder, b.kind)

\* the next key of the enumeration
FirstKey(ks) == CHOOSE k \in ks : \A other \in ks \ {k} : KeyBefore(k, other)

RECURSIVE ValuesOf(_, _)
\* grouped.get_group(key): the value column of the rows of that key, in row order
ValuesOf(frame, key) ==
    IF frame = <<>> THEN <<>>
    ELSE LET rest == ValuesOf(Tail(frame), key)
         IN  IF Key(Head(frame)) = key THEN <<Head(frame).value>> \o rest ELSE rest

Unbound == [bound |-> FALSE, values |-> <<>>]
Bound(vs) == [bound |-> TRUE, values |-> vs]

\* Chunk with the two parts of the key taken the wrong way round
ChunkKeySwapped(key, g) == [id |-> Str(key.kind), kind |-> Str(key.id), data |-> g.values]

\* the chunk tuple (id_name, str(var_name), group)
Chunk(key, g) == [id |-> Str(key.id), kind |-> Str(Str(key.kind)), data |-> g.values]

\* lines 250-256: the chunk of this key is appended with whatever `group`
\* holds; with `group` still unbound the append raises NameError, which the
\* except of line 254 swallows, and nothing is appended
AppendChunk(chunks, key, g) ==
    IF g.bound THEN Append(chunks, Chunk(key, g)) ELSE chunks

----------------------------------------------------------------------------
(* The calculator registry (pai_tsfresh.feature_extraction.feature_calculators) *)
(* and the catalogs (fc_parameters: calculator name -> list of parameter sets). *)

\* one parameter set {k: v}
Param(k, v) == [k |-> k, v |-> v]

\* one item of a catalog: function_name, parameter_list
Entry(name, params) == [name |-> name, params |-> params]

\* the calculators: name -> fctype
Registry == [sum_values     |-> "simple",
             value_count    |-> "simple",
             reciprocal_sum |-> "simple",
             quantiles      |-> "combiner"]

\* hasattr(feature_calculators, function_name)
Registered(name) == name \in DOMAIN Registry

RECURSIVE Sum(_)
Sum(data) == IF data = <<>> THEN 0 ELSE Head(data) + Sum(Tail(data))

Count(data, v) == Cardinality({i \in DOMAIN data : data[i] = v})

Min(data) == CHOOSE m \in {data[i] : i \in DOMAIN data} : \A i \in DOMAIN data : m <= data[i]
Max(data) == CHOOSE m \in {data[i] : i \in DOMAIN data} : \A i \in DOMAIN data : m >= data[i]

\* whether a simple calculator raises on this data
Raises(name, data) == name = "reciprocal_sum" /\ Sum(data) = 0

\* the value a simple calculator returns; p is the parameter set or <<>> for none
SimpleValue(name, data, p) ==
    CASE name = "sum_values"     -> Sum(data)
      [] name = "value_count"    -> Count(data, p.v)
      [] name = "reciprocal_sum" -> 1 \div Sum(data)

\* convert_to_output_format(param): "<key>_<value>"
convert_to_output_format(p) == p.k \o "_" \o ToString(p.v)

\* the (key, value) pairs a combiner returns for its parameter list
RECURSIVE CombinerPairs(_, _, _)
CombinerPairs(name, data, params) ==
    IF params = <<>> THEN <<>>
    ELSE LET p == Head(params)
             v == IF p.v = 0 THEN Min(data) ELSE Max(data)
         IN  <<[key |-> convert_to_output_format(p), item |-> v]>>
                 \o CombinerPairs(name, data, Tail(params))

P_value0 == Param("value", 0)
P_value1 == Param("value", 1)
P_q0 == Param("q", 0)
P_q1 == Param("q", 1)

\* the catalogs a caller passes
Catalogs ==
    { <<>>,
      <<Entry("sum_values", <<>>), Entry("reciprocal_sum", <<>>),
        Entry("value_count", <<P_value1>>)>>,
      <<Entry("sum_values", <<>>), Entry("no_such_calculator", <<>>)>>,
      <<Entry("value_count", <<P_value0, P_value0>>)>> }

\* the catalogs a caller registers for one kind
OverrideCatalogs ==
    { <<Entry("quantiles", <<P_q0, P_q1>>), Entry("value_count", <<P_value0, P_value1>>)>> }

\* the keys a caller registers an override under
OverrideKinds == Kinds

None == [is_none |-> TRUE, items |-> <<>>]
Dict(f) == [is_none |-> FALSE, items |-> f]

\* the kind_to_fc_parameters arguments: None or {kind: catalog}
Overrides ==
    {None} \cup {Dict(k :> c) : k \in OverrideKinds, c \in OverrideCatalogs}

----------------------------------------------------------------------------
(* _do_extraction_on_chunk *)

\* the catalog of a chunk: kind_to_fc_parameters[kind] when kind is in it
FcParameters(kind, default, k2fc) ==
    IF ~k2fc.is_none /\ DOMAIN k2fc.items # {} /\ kind \in DOMAIN k2fc.items
    THEN k2fc.items[kind]
    ELSE default

\* the outcome of a piece of work: what it yielded, the exception that ended
\* it or "none", and the calculator invocations it made
Outcome(out, raised, n) == [out |-> out, raised |-> raised, calls |-> n]

\* the generator of a simple calculator with parameters: one call per set
RECURSIVE SimplePairs(_, _, _)
SimplePairs(name, data, params) ==
    IF params = <<>> THEN Outcome(<<>>, "none", 0)
    ELSE IF Raises(name, data) THEN Outcome(<<>>, "ZeroDivisionError", 1)
    ELSE LET p == Head(params)
             rest == SimplePairs(name, data, Tail(params))
         IN  Outcome(<<[key |-> convert_to_output_format(p),
                        item |-> SimpleValue(name, data, p)]>> \o rest.out,
                     rest.raised, 1 + rest.calls)

\* `result` of one catalog item: the (key, item) pairs of the calculator
EntryPairs(entry, data) ==
    IF Registry[entry.name] = "combiner"
    THEN Outcome(CombinerPairs(entry.name, data, entry.params), "none", 1)
    ELSE IF entry.params # <<>>
    THEN SimplePairs(entry.name, data, entry.params)
    ELSE IF Raises(entry.name, data) THEN Outcome(<<>>, "ZeroDivisionError", 1)
    ELSE Outcome(<<[key |-> "", item |-> SimpleValue(entry.name, data, <<>>)]>>, "none", 1)

\* the feature record of one (key, item) pair
FeatureRecord(chunk, name, pair) ==
    [variable |-> IF pair.key # ""
                  THEN Str(chunk.kind).s \o "__" \o name \o "__" \o pair.key
                  ELSE Str(chunk.kind).s \o "__" \o name,
     value |-> pair.item,
     id |-> chunk.id]

\* _f(): the records yielded over the items of the catalog, in catalog order
RECURSIVE F(_, _)
F(chunk, fc_parameters) ==
    IF fc_parameters = <<>> THEN Outcome(<<>>, "none", 0)
    ELSE LET entry == Head(fc_parameters)
         IN  IF ~Registered(entry.name) THEN Outcome(<<>>, "AttributeError", 0)
             ELSE LET pairs == EntryPairs(entry, chunk.data)
                      recs == [i \in DOMAIN pairs.out |->
                                  FeatureRecord(chunk, entry.name, pairs.out[i])]
                  IN  IF pairs.raised # "none"
                      THEN Outcome(recs, pairs.raised, pairs.calls)
                      ELSE LET rest == F(chunk, Tail(fc_parameters))
                           IN  Outcome(recs \o rest.out, rest.raised,
                                       pairs.calls + rest.calls)

\* _do_extraction_on_chunk(chunk, default_fc_parameters, kind_to_fc_parameters)
DoExtractionOnChunk(chunk, default, k2fc) ==
    F(chunk, FcParameters(chunk.kind, default, k2fc))

----------------------------------------------------------------------------
(* The distributors (pai_tsfresh.utilities.distribution) *)

NoDistributor == [cls |-> "None", n_workers |-> 0]
MapDistributor == [cls |-> "MapDistributor", n_workers |-> 1]
MultiprocessingDistributor(n) == [cls |-> "MultiprocessingDistributor", n_workers |-> n]
NotADistributor == [cls |-> "object", n_workers |-> 0]

\* the distributor arguments of a caller
DistributorArgs ==
    {NoDistributor, MapDistributor, NotADistributor}
        \cup {MultiprocessingDistributor(n) : n \in 1..MaxJobs}

\* distributor is None: the distributor n_jobs selects
DefaultDistributor(n_jobs) ==
    IF n_jobs = 0 THEN MapDistributor ELSE MultiprocessingDistributor(n_jobs)

\* IsDistributorBaseClass without the check
IsAnyObject(d) == TRUE

\* isinstance(distributor, DistributorBaseClass)
IsDistributorBaseClass(d) == d.cls \in {"MapDistributor", "MultiprocessingDistributor"}

\* the chunk_size arguments; 0 stands for None
ChunkSizes == 0..MaxChunkSize

\* calculate_best_chunk_size(data_length)
BestChunkSize(d, n) ==
    IF d.cls = "MultiprocessingDistributor"
    THEN (n + d.n_workers * 5 - 1) \div (d.n_workers * 5)
    ELSE 1

RECURSIVE Partition(_, _)
\* partition(data, chunk_size): consecutive slices of chunk_size items
Partition(data, size) ==
    IF data = <<>> THEN <<>>
    ELSE IF Len(data) <= size THEN <<data>>
    ELSE <<SubSeq(data, 1, size)>> \o Partition(SubSeq(data, size + 1, Len(data)), size)

\* the batches of a map_reduce call
Batches(d, data, chunk_size) ==
    Partition(data, IF chunk_size = 0 THEN BestChunkSize(d, Len(data)) ELSE chunk_size)

\* one worker's task: the map function on every chunk of a batch, in order
RECURSIVE MapBatch(_, _, _)
MapBatch(batch, default, k2fc) ==
    IF batch = <<>> THEN Outcome(<<>>, "none", 0)
    ELSE LET one == DoExtractionOnChunk(Head(batch), default, k2fc)
         IN  IF one.raised # "none" THEN one
             ELSE LET rest == MapBatch(Tail(batch), default, k2fc)
                  IN  Outcome(one.out \o rest.out, rest.raised, one.calls + rest.calls)

\* the batches a worker may be holding: handed out in order, at most
\* n_workers at a time
InFlight(d, n, done) ==
    {i \in 1..n : i \notin done /\
        Cardinality({j \in 1..(i - 1) : j \notin done}) < d.n_workers}

----------------------------------------------------------------------------
(* The result table *)

NaN == [nan |-> TRUE, v |-> 0]
Float(v) == [nan |-> FALSE, v |-> v]

Table(rows, columns, cells) == [rows |-> rows, columns |-> columns, cells |-> cells]
EmptyTable == Table({}, {}, <<>>)

\* HasDuplicates of a reshape that never looks for a populated cell
NeverDuplicates(recs) == FALSE

\* two records of the list target one (id, variable) cell
HasDuplicates(recs) ==
    \E i, j \in DOMAIN recs :
        i # j /\ recs[i].id = recs[j].id /\ recs[i].variable = recs[j].variable

\* Pivot filling the cells without a record with zero
PivotFillZero(recs, dtype) ==
    LET ids == {recs[i].id : i \in DOMAIN recs}
        columns == {recs[i].variable : i \in DOMAIN recs}
    IN  Table({AsType(id, dtype) : id \in ids},
              columns,
              [x \in {<<AsType(id, dtype), c>> : id \in ids, c \in columns} |->
                  LET hit == {i \in DOMAIN recs :
                                 AsType(recs[i].id, dtype) = x[1] /\ recs[i].variable = x[2]}
                  IN  IF hit = {} THEN Float(0)
                      ELSE Float(recs[CHOOSE i \in hit : TRUE].value)])

\* Pivot reshaping by position: a column's first record fills the column
PivotUnkeyed(recs, dtype) ==
    LET ids == {recs[i].id : i \in DOMAIN recs}
        columns == {recs[i].variable : i \in DOMAIN recs}
    IN  Table({AsType(id, dtype) : id \in ids},
              columns,
              [x \in {<<AsType(id, dtype), c>> : id \in ids, c \in columns} |->
                  LET hit == {i \in DOMAIN recs : recs[i].variable = x[2]}
                      first == CHOOSE i \in hit : \A j \in hit : i <= j
                  IN  Float(recs[first].value)])

\* result.pivot("id", "variable", "value") with the index cast to dtype
Pivot(recs, dtype) ==
    LET ids == {recs[i].id : i \in DOMAIN recs}
        columns == {recs[i].variable : i \in DOMAIN recs}
    IN  Table({AsType(id, dtype) : id \in ids},
              columns,
              [x \in {<<AsType(id, dtype), c>> : id \in ids, c \in columns} |->
                  LET hit == {i \in DOMAIN recs :
                                 AsType(recs[i].id, dtype) = x[1] /\ recs[i].variable = x[2]}
                  IN  IF hit = {} THEN NaN
                      ELSE Float(recs[CHOOSE i \in hit : TRUE].value)])

Init ==
    /\ df \in DataFrames
    /\ pc = "groupby"
    /\ keys_left = {}
    /\ group = Unbound
    /\ get_group_failed = {}
    /\ keys_failed = FALSE
    /\ data_in_chunks = <<>>
    /\ distributor = NoDistributor
    /\ default_fc_parameters = <<>>
    /\ kind_to_fc_parameters = None
    /\ batches = <<>>
    /\ completed = {}
    /\ records = <<>>
    /\ calls = 0
    /\ map_reduce_calls = 0
    /\ close_calls = 0
    /\ result = EmptyTable
    /\ error = "none"

rest_group == <<distributor, default_fc_parameters, kind_to_fc_parameters, batches,
                completed, records, calls, map_reduce_calls, close_calls, result, error>>

\* df.groupby([column_id, column_kind])[column_value] and grouped.groups.keys()
GroupBy ==
    /\ pc = "groupby"
    /\ keys_left' = GroupKeys(df)
    /\ pc' = "keys"
    /\ UNCHANGED <<df, group, get_group_failed, keys_failed, data_in_chunks>>
    /\ UNCHANGED rest_group

\* enumerating the keys raises: the outer except prints and the run goes on
\* with an empty chunk list
KeysRaise ==
    /\ pc = "groupby"
    /\ keys_failed' = TRUE
    /\ pc' = "distributor"
    /\ UNCHANGED <<df, keys_left, group, get_group_failed, data_in_chunks>>
    /\ UNCHANGED rest_group

\* one iteration of the key loop: grouped.get_group(key) returns (ok) or
\* raises; when it raises the except of line 247 leaves `group` as the
\* iteration before left it
NextKey ==
    /\ pc = "keys"
    /\ keys_left # {}
    /\ LET key == FirstKey(keys_left) IN
        /\ keys_left' = keys_left \ {key}
        /\ \E ok \in BOOLEAN :
            /\ group' = IF ok THEN Bound(ValuesOf(df, key)) ELSE group
            /\ get_group_failed' = IF ok THEN get_group_failed
                                   ELSE get_group_failed \cup {key}
            /\ data_in_chunks' = AppendChunk(data_in_chunks, key, group')
    /\ UNCHANGED <<df, pc, keys_failed>>
    /\ UNCHANGED rest_group

\* the key loop ends
KeysDone ==
    /\ pc = "keys"
    /\ keys_left = {}
    /\ pc' = "distributor"
    /\ UNCHANGED <<df, keys_left, group, get_group_failed, keys_failed, data_in_chunks>>
    /\ UNCHANGED rest_group

rest_keys == <<df, keys_left, group, get_group_failed, keys_failed, data_in_chunks>>

\* lines 275-284: distributor is None selects one by n_jobs
ChooseDistributor ==
    /\ pc = "distributor"
    /\ \E arg \in DistributorArgs, n_jobs \in 0..MaxJobs :
        distributor' = IF arg = NoDistributor THEN DefaultDistributor(n_jobs) ELSE arg
    /\ pc' = "isinstance"
    /\ UNCHANGED rest_keys
    /\ UNCHANGED <<default_fc_parameters, kind_to_fc_parameters, batches, completed,
                   records, calls, map_reduce_calls, close_calls, result, error>>

\* lines 286-287: not a DistributorBaseClass raises ValueError
CheckDistributor ==
    /\ pc = "isinstance"
    /\ IF IsDistributorBaseClass(distributor)
       THEN /\ pc' = "map_reduce"
            /\ error' = error
       ELSE /\ pc' = "raised"
            /\ error' = "ValueError"
    /\ UNCHANGED rest_keys
    /\ UNCHANGED <<distributor, default_fc_parameters, kind_to_fc_parameters, batches,
                   completed, records, calls, map_reduce_calls, close_calls, result>>

\* lines 289-292: distributor.map_reduce is called on the chunk list
MapReduce ==
    /\ pc = "map_reduce"
    /\ \E default \in Catalogs, k2fc \in Overrides, chunk_size \in ChunkSizes :
        /\ default_fc_parameters' = default
        /\ kind_to_fc_parameters' = k2fc
        /\ batches' = Batches(distributor, data_in_chunks, chunk_size)
    /\ map_reduce_calls' = map_reduce_calls + 1
    /\ pc' = "mapping"
    /\ UNCHANGED rest_keys
    /\ UNCHANGED <<distributor, completed, records, calls, close_calls, result, error>>

\* inside map_reduce: the result of one batch arrives and is concatenated,
\* or its exception leaves map_reduce and _do_extraction
BatchDone ==
    /\ pc = "mapping"
    /\ \E i \in InFlight(distributor, Len(batches), completed) :
        LET task == MapBatch(batches[i], default_fc_parameters, kind_to_fc_parameters)
        IN  /\ completed' = completed \cup {i}
            /\ calls' = calls + task.calls
            /\ IF task.raised = "none"
               THEN /\ records' = records \o task.out
                    /\ UNCHANGED <<pc, error>>
               ELSE /\ pc' = "raised"
                    /\ error' = task.raised
                    /\ UNCHANGED records
    /\ UNCHANGED rest_keys
    /\ UNCHANGED <<distributor, default_fc_parameters, kind_to_fc_parameters, batches,
                   map_reduce_calls, close_calls, result>>

\* line 293: map_reduce has returned and distributor.close() is called
Close ==
    /\ pc = "mapping"
    /\ completed = 1..Len(batches)
    /\ close_calls' = close_calls + 1
    /\ pc' = "pivot"
    /\ UNCHANGED rest_keys
    /\ UNCHANGED <<distributor, default_fc_parameters, kind_to_fc_parameters, batches,
                   completed, records, calls, map_reduce_calls, result, error>>

\* lines 297-306: the records become the table; a duplicate cell raises
Assemble ==
    /\ pc = "pivot"
    /\ IF records = <<>>
       THEN /\ result' = EmptyTable
            /\ pc' = "returned"
            /\ error' = error
       ELSE IF HasDuplicates(records)
       THEN /\ pc' = "raised"
            /\ error' = "ValueError"
            /\ result' = result
       ELSE /\ result' = Pivot(records, IdDtype)
            /\ pc' = "returned"
            /\ error' = error
    /\ UNCHANGED rest_keys
    /\ UNCHANGED <<distributor, default_fc_parameters, kind_to_fc_parameters, batches,
                   completed, records, calls, map_reduce_calls, close_calls>>

Next ==
    \/ GroupBy
    \/ KeysRaise
    \/ NextKey
    \/ KeysDone
    \/ ChooseDistributor
    \/ CheckDistributor
    \/ MapReduce
    \/ BatchDone
    \/ Close
    \/ Assemble

Spec == Init /\ [][Next]_vars

----------------------------------------------------------------------------
(* Properties *)

\* chunk formation has just ended; the chunk list and the frame do not change
\* from here on
ChunksFormed == pc = "distributor"

\* _do_extraction has ended after calling map_reduce
Finished == map_reduce_calls > 0 /\ pc \in {"returned", "raised"}

\* the chunks of the list that carry the id and kind of a key
ChunksOf(key) ==
    {i \in DOMAIN data_in_chunks :
        data_in_chunks[i].id = Str(key.id) /\ data_in_chunks[i].kind = Str(key.kind)}

\* the (id, variable, value) triples of a table
Triples(table) ==
    {<<x[1], x[2], table.cells[x].v>> : x \in {y \in DOMAIN table.cells : ~table.cells[y].nan}}

\* the sequential reference: the map function on every chunk in list order
InOrder == MapBatch(data_in_chunks, default_fc_parameters, kind_to_fc_parameters)

\* two records of a list target the same cell
SameCell(recs) ==
    \E i, j \in DOMAIN recs :
        i < j /\ recs[i].id = recs[j].id /\ recs[i].variable = recs[j].variable

\* C1: whatever the distributor (sequential or pooled), the batch size and the
\* order in which the batches complete, a finished run ends as the in-order
\* run over the same chunks and catalogs ends: it raises when that one raises,
\* and otherwise returns a table with exactly its (id, variable, value) triples.
C1_ContentIndependentOfScheduling ==
    Finished =>
        LET seq == InOrder
        IN  IF seq.raised # "none" \/ SameCell(seq.out)
            THEN pc = "raised"
            ELSE /\ pc = "returned"
                 /\ Triples(result) =
                        {<<AsType(seq.out[i].id, IdDtype), seq.out[i].variable,
                           seq.out[i].value>> : i \in DOMAIN seq.out}

\* a pooled run whose batches completed out of list order returned a table
C1_Witness ==
    /\ pc = "returned"
    /\ distributor.cls = "MultiprocessingDistributor"
    /\ Len(batches) > 1
    /\ records # InOrder.out
    /\ result.rows # {}

C3_FailedKeyOmitted ==
    pc \notin {"groupby", "keys"} =>
        \A key \in get_group_failed :
            /\ ChunksOf(key) = {}
            /\ \A b \in DOMAIN batches : \A i \in DOMAIN batches[b] :
                  ~(batches[b][i].id = Str(key.id) /\ batches[b][i].kind = Str(key.kind))

\* C4: a run that reached map_reduce has called close() exactly once when it
\* ends, whether map_reduce returned or raised.
C4_ClosedExactlyOnce == Finished => close_calls = 1

\* C5: a calculator that raises on one chunk's data does not end the run: no
\* finished run was ended by the exception of a calculator.
C5_CalculatorFaultIsolated == Finished => error # "ZeroDivisionError"

\* C6: with a distributor that is no DistributorBaseClass the run raises
\* ValueError and map_reduce is never called: no chunk is processed.
C6_InvalidDistributorRejected ==
    distributor = NotADistributor =>
        /\ map_reduce_calls = 0
        /\ calls = 0
        /\ batches = <<>>
        /\ pc \in {"isinstance", "raised"}
        /\ pc = "raised" => error = "ValueError"

\* chunks were formed and the run was ended by the distributor check
C6_Witness ==
    /\ distributor = NotADistributor
    /\ pc = "raised"
    /\ error = "ValueError"
    /\ data_in_chunks # <<>>

\* C7: when the unknown calculator name is reported, no calculator has been
\* invoked on any chunk.
C7_UnknownNameBeforeChunkWork == error = "AttributeError" => calls = 0

\* C8: a finished run whose map_reduce result holds two records for one
\* (id, variable) cell has raised ValueError in the assembly; a run returns a
\* table only when no two records target the same cell.
C8_DuplicateCellFailsRun ==
    /\ pc = "returned" => ~SameCell(records)
    /\ (pc = "raised" /\ close_calls = 1) => (SameCell(records) /\ error = "ValueError")
    /\ (pc \in {"returned", "raised"} /\ close_calls = 1 /\ SameCell(records))
          => (pc = "raised" /\ result = EmptyTable)

\* map_reduce returned two records for one cell and the assembly raised
C8_Witness ==
    /\ pc = "raised"
    /\ close_calls = 1
    /\ SameCell(records)
    /\ error = "ValueError"

\* C9: the returned table of a duplicate-free record list has the distinct
\* record ids (in the id column's type) as rows and the distinct variable
\* names as columns; a cell with a record holds that record's value; a cell
\* with no record holds the missing marker, which is not the value zero.
C9_TableOfRecords ==
    (pc = "returned" /\ ~SameCell(records)) =>
        /\ result.rows = {AsType(records[i].id, IdDtype) : i \in DOMAIN records}
        /\ result.columns = {records[i].variable : i \in DOMAIN records}
        /\ DOMAIN result.cells = result.rows \X result.columns
        /\ \A i \in DOMAIN records :
              result.cells[<<AsType(records[i].id, IdDtype), records[i].variable>>]
                  = [nan |-> FALSE, v |-> records[i].value]
        /\ \A x \in result.rows \X result.columns :
              (\A i \in DOMAIN records :
                  <<AsType(records[i].id, IdDtype), records[i].variable>> # x)
                  => (result.cells[x].nan /\ result.cells[x] # [nan |-> FALSE, v |-> 0])

\* a returned table with a missing cell and a cell that holds zero
C9_Witness ==
    /\ pc = "returned"
    /\ \E x \in DOMAIN result.cells : result.cells[x].nan
    /\ \E x \in DOMAIN result.cells : result.cells[x] = [nan |-> FALSE, v |-> 0]

\* the kinds of the frame that a chunk's stringified id and kind come from
KindsInInput(chunk) ==
    {key.kind : key \in {k \in GroupKeys(df) :
                            Str(k.id) = chunk.id /\ Str(k.kind) = chunk.kind}}

\* C10: for every dispatched chunk, the catalog _do_extraction_on_chunk uses is
\* the override registered for the chunk's kind in the frame when there is
\* one, and the default catalog otherwise.
C10_OverrideReplacesDefault ==
    map_reduce_calls > 0 =>
        \A b \in DOMAIN batches : \A i \in DOMAIN batches[b] :
            \A kind \in KindsInInput(batches[b][i]) :
                FcParameters(batches[b][i].kind, default_fc_parameters, kind_to_fc_parameters)
                    = IF ~kind_to_fc_parameters.is_none
                         /\ kind \in DOMAIN kind_to_fc_parameters.items
                      THEN kind_to_fc_parameters.items[kind]
                      ELSE default_fc_parameters

\* the catalog the code walks for a chunk
CatalogOf(chunk) == FcParameters(chunk.kind, default_fc_parameters, kind_to_fc_parameters)

\* the calls of one catalog item: a combiner once with the whole list, a
\* simple calculator once per parameter set, or once when there is none
CallsOfEntry(entry) ==
    IF ~Registered(entry.name) THEN 0
    ELSE IF Registry[entry.name] = "combiner" THEN 1
    ELSE IF entry.params = <<>> THEN 1
    ELSE Len(entry.params)

RECURSIVE CallsOfCatalog(_)
CallsOfCatalog(catalog) ==
    IF catalog = <<>> THEN 0
    ELSE CallsOfEntry(Head(catalog)) + CallsOfCatalog(Tail(catalog))

RECURSIVE CallsOfChunks(_)
CallsOfChunks(chunks) ==
    IF chunks = <<>> THEN 0
    ELSE CallsOfCatalog(CatalogOf(Head(chunks))) + CallsOfChunks(Tail(chunks))

\* the variable names of one catalog item: kind__name when no parameters
\* were supplied, kind__name__key for every parameter set otherwise
NamesOfEntry(chunk, entry) ==
    IF ~Registered(entry.name) THEN <<>>
    ELSE IF entry.params = <<>>
    THEN IF Registry[entry.name] = "combiner" THEN <<>>
         ELSE <<chunk.kind.s \o "__" \o entry.name>>
    ELSE [i \in DOMAIN entry.params |->
             chunk.kind.s \o "__" \o entry.name \o "__" \o entry.params[i].k \o "_"
                 \o ToString(entry.params[i].v)]

RECURSIVE NamesOfCatalog(_, _)
NamesOfCatalog(chunk, catalog) ==
    IF catalog = <<>> THEN <<>>
    ELSE NamesOfEntry(chunk, Head(catalog)) \o NamesOfCatalog(chunk, Tail(catalog))

\* the variable names of the gathered records of one chunk, in record order
RECURSIVE NamesGathered(_, _, _)
NamesGathered(recs, chunk, names) ==
    IF recs = <<>> THEN <<>>
    ELSE LET rest == NamesGathered(Tail(recs), chunk, names)
         IN  IF Head(recs).id = chunk.id /\ Head(recs).variable \in names
             THEN <<Head(recs).variable>> \o rest
             ELSE rest

\* every chunk's records are the records of its catalog, in catalog order
WalkedInCatalogOrder ==
    \A i \in DOMAIN data_in_chunks :
        LET chunk == data_in_chunks[i]
            names == NamesOfCatalog(chunk, CatalogOf(chunk))
        IN  NamesGathered(records, chunk, {names[n] : n \in DOMAIN names}) = names

\* map_reduce is over: it returned or raised
Mapped == map_reduce_calls > 0 /\ pc \in {"pivot", "returned", "raised"}

\* C11: for every chunk of a run whose map_reduce is over, the calculators of
\* its catalog were called a combiner once with the whole list and a simple
\* calculator once per parameter set (once when there is none), and the
\* chunk's records are, in catalog order, one record per (key, value) pair
\* with the chunk's id and the name kind__calculator, followed by __key
\* exactly when parameters were supplied.
C11_CatalogWalk ==
    Mapped =>
        /\ calls = CallsOfChunks(data_in_chunks)
        /\ WalkedInCatalogOrder

\* C11 in the runs that no calculator's exception and no unknown name ended
C11_CatalogWalkOfCompletedChunks ==
    (Mapped /\ error \notin {"ZeroDivisionError", "AttributeError"}) =>
        /\ calls = CallsOfChunks(data_in_chunks)
        /\ WalkedInCatalogOrder

\* a finished run that walked a catalog with a combiner and a simple
\* calculator with two parameter sets
C11_CompletedWitness ==
    /\ pc = "returned"
    /\ calls = 3
    /\ Len(records) = 4

====
